---- MODULE Spec2Model ----
(***************************************************************************)
(* The world/agent step-resolution loop of Auralis (world.js, agent.js and *)
(* the demo script that drives them).                                      *)
(*                                                                         *)
(* A World holds time, the list of registered agents and the event log.    *)
(* World.step() is a synchronous JavaScript method: once entered it runs   *)
(* to completion (or to the exception that leaves it) before any other     *)
(* callback of the program runs.  The loop of step() is modelled one       *)
(* iteration at a time (pc, i) so that the states inside a tick can be     *)
(* spoken about; every other operation is enabled only while no step is    *)
(* on the call stack (pc = "idle").                                        *)
(***************************************************************************)
EXTENDS Integers, Sequences, FiniteSets, TLC

\* Number of Agent instances the program constructs.
MaxObjs == 3
\* Longest list of registered agents explored.
MaxAgents == 3
\* Largest value of world.time explored.
MaxTime == 3
\* Number of writes a caller makes through a value returned by observe.
MaxWrites == 2
\* Number of reset() calls explored.
MaxResets == 1
\* Number of actions logged on chain.
MaxLogged == 2
\* Largest fee (ActionLogger.actionFee, MONToken entry fee) explored.
MaxFee == 2
\* Largest ether balance of the ActionLogger contract explored.
MaxBalance == 1
\* MONToken.INITIAL_SUPPLY, scaled down to whole tokens that can be counted.
MaxSupply == 2
\* Largest total of rewards distributed through MONToken explored.
MaxRewarded == 1
\* Largest server time (number of steps since create or reset) explored.
MaxSteps == 72
\* Largest number of actions a step reports, less one.
MaxBatch == 3
\* Number of callbacks other than steps (create, start, page load) explored
\* between two resets.
MaxExtras == 1

\* Steps and wallet callbacks explored while on-chain logging is followed.
MaxChainSteps == 2
MaxToggles == 2

\* Clicks made on the buttons of the legacy dashboard, or of the Next.js
\* page.
MaxClicks == 4

\* world_update messages received while the Stop/Resume button is followed.
MaxUpdates == 3

\* Number of connection attempts counted (later ones are made, not counted).
MaxAttempts == 3

\* The delay, in milliseconds, after which the vanilla dashboards reconnect.
AppReconnectMs == 1500
WalletReconnectMs == 2000
LegacyReconnectMs == 3000

\* The sizes the dashboards give their price series and their event feeds.
AppChartPoints == 60
AppEventsShown == 80
WalletChartPoints == 60
WalletEventsShown == 100
LegacyChartPoints == 50
LegacyEventsShown == 20
NextChartPoints == 50
NextEventsShown == 20
\* The size of the wallet dashboard's transaction log.
WalletTxShown == 20

\* The names the demo script gives its agents.
Names == <<"Auralis-1", "Auralis-2">>

\* A value handed to registerAgent on which the call agent.decide(world)
\* throws: it has no decide method, or a decide of its own that raises.
NoDecide == 0

VARIABLES
    objs,     \* the Agent instances: objs[o] = [name, memory]
    time,     \* world.time
    agents,   \* world.agents: references to registered objects, in order
    events,   \* world.events
    pc,       \* "idle": no step() on the call stack; "loop": inside step()
    i,        \* position of the for-of loop of step() in world.agents
    thrown,   \* the last step() call was left by an exception
    obs,      \* the value a caller holds from its last observe() call
    regAt,    \* history: regAt[k] = world.time when agents[k] was registered
    nsteps,   \* history: number of step() calls made so far
    writes,   \* history: number of writes made through obs
    resets,   \* history: number of reset() calls made so far
    logger,   \* the storage and ether balance of the ActionLogger contract
    loggerTx, \* the last transaction sent to ActionLogger and its outcome
    token,    \* the storage of the MONToken contract
    tokenTx,  \* the last transaction sent to MONToken and its outcome
    dash,     \* the dashboard shown: "app", "wallet", "legacy" or "next"
    srvTime,  \* the server's world time: steps since create or reset
    priceData,    \* the chart's arrays: [labels, data]
    priceHistory, \* the list of {time, price} the legacy and Next.js pages keep
    feed,     \* the event feed, first child first
    points,   \* history: the points pushed since the series was last emptied,
              \* the newest ones up to one more than the window
    entries,  \* history: the lines added since the feed was last emptied, the
              \* newest ones up to one more than the cap
    extras,   \* history: callbacks other than steps since the last reset
    op,       \* the callback that ran last
    loaded,   \* DOMContentLoaded has fired
    sockets,  \* the WebSockets not yet closed: "connecting" or "open" each
    timers,   \* the pending reconnect timers: the delay of each
    serverUp, \* the server accepts connections
    attempts, \* history: number of WebSockets created, up to MaxAttempts
    onChainLoggingEnabled, \* wallet dashboard: the logging switch
    contract,     \* wallet dashboard: a contract interface is initialised
    userAccount,  \* wallet dashboard: the connected account, or "null"
    configLoaded, \* wallet dashboard: contractAddress and contractABI are set
    txLog,        \* wallet dashboard: the transaction log, first child first
    lastStep,     \* history: the stepData the wallet dashboard received last
    disabled,     \* legacy dashboard: the disabled property of each button
    pending,      \* legacy dashboard: the fetches not yet answered, per button
    clicks,       \* history: number of clicks made on the page's buttons
    theWorld,     \* Next.js page: the state variable world
    toggles,      \* Next.js page: the toggleSim calls awaiting their request,
                  \* each with the world its closure holds
    lastUpdate    \* history: the world_update applied last to the world shown

\* The World, its agents and the position of its callers.
worldVars == <<objs, time, agents, events, pc, i, thrown, obs, regAt, nsteps, writes>>

\* Everything the operations of World and Agent cannot reach.
chainVars == <<logger, loggerTx, token, tokenTx>>
\* The dashboards.
dashVars == <<dash, srvTime, priceData, priceHistory, feed, points, entries, extras, op>>
connVars == <<loaded, sockets, timers, serverUp, attempts>>
walletVars == <<onChainLoggingEnabled, contract, userAccount, configLoaded, txLog,
                lastStep>>
btnVars == <<disabled, pending, clicks>>
simVars == <<theWorld, toggles, lastUpdate>>
pageVars == <<dashVars, connVars, walletVars, btnVars, simVars>>

offWorld == <<resets, chainVars, pageVars>>

\* Everything a transaction sent to ActionLogger, or to MONToken, cannot reach.
offLogger == <<worldVars, resets, token, tokenTx, pageVars>>
offToken == <<worldVars, resets, logger, loggerTx, pageVars>>

\* Everything a callback of a dashboard cannot reach.
offLegacy == <<worldVars, resets, chainVars, connVars, walletVars, simVars>>
offSim == <<worldVars, resets, chainVars, connVars, walletVars, disabled, pending>>
offDash == <<offLegacy, btnVars>>
offPage == <<worldVars, resets, chainVars, walletVars, btnVars, simVars>>
offWallet == <<worldVars, resets, chainVars, connVars, btnVars, simVars>>

vars == <<worldVars, offWorld>>

----------------------------------------------------------------------------
(* agent.js *)

\* new Agent(name)
Agent(name) == [name |-> name, memory |-> <<>>]

\* The references to the constructed Agent instances.
AgentRefs == 1..MaxObjs

\* The object to which world.* refers, as decide and observe read it.
World == [time |-> time, agents |-> agents, events |-> events]

\* No observe() call has been made yet.
NoObs == [kind |-> "none", items |-> <<>>]

\* Agent.observe(world): the world's own events array, not a copy of it.
observe(self, world) == [kind |-> "ref", items |-> <<>>]

\* The action object Agent.decide(world) builds and returns.
decideStale(self, world) ==
    [agent |-> objs[self].name, action |-> "observe", time |-> world.time - 1]

decideCounting(self, world) ==
    [agent |-> objs[self].name, action |-> "observe",
     time |-> Len(objs[self].memory) + 1]

decide(self, world) ==
    [agent |-> objs[self].name, action |-> "observe", time |-> world.time]

\* this.memory.push(action) in Agent.decide.
rememberShared(self, action) ==
    [o \in DOMAIN objs |-> [objs[o] EXCEPT !.memory = Append(@, action)]]

remember(self, action) ==
    [objs EXCEPT ![self].memory = Append(@, action)]

----------------------------------------------------------------------------
(* blockchain/contracts/ActionLogger.sol *)

ZeroAddress == "0x0"
Deployer == "0xDeployer"
Stranger == "0xStranger"

\* The accounts that send transactions.
Callers == {Deployer, Stranger}

\* The values of type address.
Addresses == Callers \cup {ZeroAddress}

Fees == 0..MaxFee

\* The arguments of logAction the dashboards send.
AgentIds == {Names[1], Names[2]}
ActionTypes == {"trade", "observe"}
ActionData == "{}"
WorldTimes == {1}

\* No transaction has been sent yet.
NoTx == [fn |-> "none", sender |-> ZeroAddress, args |-> <<>>,
         reverted |-> FALSE, reason |-> "", ret |-> 0]

\* A transaction that ran to its end, and one that was reverted.
Done(fn, sender, args, ret) ==
    [fn |-> fn, sender |-> sender, args |-> args,
     reverted |-> FALSE, reason |-> "", ret |-> ret]

Reverted(fn, sender, args, reason) ==
    [fn |-> fn, sender |-> sender, args |-> args,
     reverted |-> TRUE, reason |-> reason, ret |-> 0]

\* constructor(_initialFee), sent by Deployer.
InitLogger(initialFee) ==
    /\ logger = [owner |-> Deployer,
                 actionFee |-> initialFee,
                 totalActionsLogged |-> 0,
                 actions |-> <<>>,
                 agentActions |-> [a \in AgentIds |-> <<>>],
                 userActions |-> [u \in Callers |-> <<>>],
                 balance |-> 0]
    /\ loggerTx = NoTx

\* block.timestamp: every logged action is mined in a later block.
BlockTimestamp == Len(logger.actions) + 1

\* modifier onlyOwner
onlyOwnerAnyone(sender) == TRUE

onlyOwner(sender) == sender = logger.owner

\* logAction(agentId, actionType, actionData, worldTime): the new storage.
logActionOverwrite(sender, agentId, actionType, worldTime) ==
    LET actionId == IF logger.actions = <<>> THEN 0 ELSE Len(logger.actions) - 1
        newAction == [agentId |-> agentId, actionType |-> actionType,
                      actionData |-> ActionData, timestamp |-> BlockTimestamp,
                      logger |-> sender, worldTime |-> worldTime]
    IN [logger EXCEPT
            !.actions = IF @ = <<>> THEN <<newAction>>
                        ELSE [@ EXCEPT ![Len(@)] = newAction],
            !.agentActions[agentId] = Append(@, actionId),
            !.userActions[sender] = Append(@, actionId),
            !.totalActionsLogged = @ + 1]

logAction(sender, agentId, actionType, worldTime) ==
    LET actionId == Len(logger.actions)
        newAction == [agentId |-> agentId, actionType |-> actionType,
                      actionData |-> ActionData, timestamp |-> BlockTimestamp,
                      logger |-> sender, worldTime |-> worldTime]
    IN [logger EXCEPT
            !.actions = Append(@, newAction),
            !.agentActions[agentId] = Append(@, actionId),
            !.userActions[sender] = Append(@, actionId),
            !.totalActionsLogged = @ + 1]

\* A logAction transaction; its return value is the id of the new action.
LogAction(sender, agentId, actionType, worldTime) ==
    /\ Len(logger.actions) < MaxLogged
    /\ logger' = logAction(sender, agentId, actionType, worldTime)
    /\ loggerTx' = Done("logAction", sender, <<agentId, actionType, ActionData, worldTime>>,
                        Len(logger.actions))
    /\ UNCHANGED offLogger

\* getActionCount()
getActionCount == Len(logger.actions)

\* getAction(actionId) on storage lg: the stored fields, or a revert.
getAction(lg, actionId) ==
    IF actionId < Len(lg.actions)
    THEN [reverted |-> FALSE, reason |-> "", value |-> <<lg.actions[actionId + 1]>>]
    ELSE [reverted |-> TRUE, reason |-> "Action does not exist", value |-> <<>>]

\* setActionFee(newFee)
SetActionFee(sender, newFee) ==
    /\ IF ~onlyOwner(sender)
       THEN /\ loggerTx' = Reverted("setActionFee", sender, <<newFee>>, "Only owner can call this")
            /\ logger' = logger
       ELSE /\ loggerTx' = Done("setActionFee", sender, <<newFee>>, 0)
            /\ logger' = [logger EXCEPT !.actionFee = newFee]
    /\ UNCHANGED offLogger

\* withdrawFees(); received tells whether owner.call{value: balance} succeeds.
WithdrawFees(sender, received) ==
    /\ IF ~onlyOwner(sender)
       THEN /\ loggerTx' = Reverted("withdrawFees", sender, <<>>, "Only owner can call this")
            /\ logger' = logger
       ELSE IF ~(logger.balance > 0)
       THEN /\ loggerTx' = Reverted("withdrawFees", sender, <<>>, "No funds to withdraw")
            /\ logger' = logger
       ELSE IF ~received
       THEN /\ loggerTx' = Reverted("withdrawFees", sender, <<>>, "Withdrawal failed")
            /\ logger' = logger
       ELSE /\ loggerTx' = Done("withdrawFees", sender, <<>>, 0)
            /\ logger' = [logger EXCEPT !.balance = 0]
    /\ UNCHANGED offLogger

\* transferOwnership(newOwner)
TransferOwnership(sender, newOwner) ==
    /\ IF ~onlyOwner(sender)
       THEN /\ loggerTx' = Reverted("transferOwnership", sender, <<newOwner>>, "Only owner can call this")
            /\ logger' = logger
       ELSE IF ~(newOwner # ZeroAddress)
       THEN /\ loggerTx' = Reverted("transferOwnership", sender, <<newOwner>>, "Invalid new owner")
            /\ logger' = logger
       ELSE /\ loggerTx' = Done("transferOwnership", sender, <<newOwner>>, 0)
            /\ logger' = [logger EXCEPT !.owner = newOwner]
    /\ UNCHANGED offLogger

\* receive(): one unit of ether is sent to the contract.
Receive(sender) ==
    /\ logger.balance < MaxBalance
    /\ logger' = [logger EXCEPT !.balance = @ + 1]
    /\ loggerTx' = Done("receive", sender, <<>>, 0)
    /\ UNCHANGED offLogger

\* getRecentActions(count) on storage lg: the returned array, or a revert
\* (an index outside the array, or a subtraction below zero, panics).
getRecentActionsOldest(lg, count) ==
    LET totalActions == Len(lg.actions)
        returnCount == IF count > totalActions THEN totalActions ELSE count
        index(k) == k
    IN  IF \A k \in 0..(returnCount - 1) : index(k) >= 0 /\ index(k) < totalActions
        THEN [reverted |-> FALSE,
              value |-> [k \in 1..returnCount |-> lg.actions[index(k - 1) + 1]]]
        ELSE [reverted |-> TRUE, value |-> <<>>]

getRecentActions(lg, count) ==
    LET totalActions == Len(lg.actions)
        returnCount == IF count > totalActions THEN totalActions ELSE count
        index(k) == totalActions - returnCount + k
    IN  IF \A k \in 0..(returnCount - 1) : index(k) >= 0 /\ index(k) < totalActions
        THEN [reverted |-> FALSE,
              value |-> [k \in 1..returnCount |-> lg.actions[index(k - 1) + 1]]]
        ELSE [reverted |-> TRUE, value |-> <<>>]

\* A call of the view getRecentActions(count): storage is left as it is.
GetRecentActions(sender, count) ==
    LET outcome == getRecentActions(logger, count)
    IN  /\ loggerTx' = IF outcome.reverted
                       THEN Reverted("getRecentActions", sender, <<count>>, "Panic")
                       ELSE Done("getRecentActions", sender, <<count>>, outcome.value)
        /\ logger' = logger
        /\ UNCHANGED offLogger

\* The transactions sent to a deployed ActionLogger.
NextLogger ==
    \/ \E sender \in Callers, count \in 0..(MaxLogged + 1) :
            GetRecentActions(sender, count)
    \/ \E sender \in Callers, a \in AgentIds, ty \in ActionTypes, wt \in WorldTimes :
            LogAction(sender, a, ty, wt)
    \/ \E sender \in Callers, fee \in Fees : SetActionFee(sender, fee)
    \/ \E sender \in Callers, received \in BOOLEAN : WithdrawFees(sender, received)
    \/ \E sender \in Callers, newOwner \in Addresses : TransferOwnership(sender, newOwner)
    \/ \E sender \in Callers : Receive(sender)

----------------------------------------------------------------------------
(* MONToken (the Solidity listing of README.md) *)

\* An address that holds tokens but sends no transaction.
Treasury == "0xTreasury"
TokenAddresses == Callers \cup {Treasury, ZeroAddress}

\* bytes32 world ids: the mappings are keyed by id and no function reads or
\* writes an entry other than the one of the id it is given, so one id is
\* followed.
WorldIds == {"w1"}

\* constructor(_platformWallet): the deployer owns the contract and holds
\* the initial supply; no world exists.
InitToken(platformWallet) ==
    /\ token = [owner |-> Deployer,
                platformWallet |-> platformWallet,
                balances |-> [a \in TokenAddresses |->
                                 IF a = Deployer THEN MaxSupply ELSE 0],
                worldEntryFees |-> [w \in WorldIds |-> 0],
                worldCreators |-> [w \in WorldIds |-> ZeroAddress],
                agentWorldBalances |-> [w \in WorldIds |-> [a \in TokenAddresses |-> 0]]]
    /\ tokenTx = [fn |-> "none", sender |-> ZeroAddress, args |-> <<>>,
                  reverted |-> FALSE, reason |-> "", emitted |-> <<>>]

\* The outcome of a call: the storage it leaves and the events it emitted,
\* or the reason it reverted with (storage as before the call).
Returned(tk, emitted) ==
    [reverted |-> FALSE, reason |-> "", token |-> tk, emitted |-> emitted]

Revert(tk, reason) ==
    [reverted |-> TRUE, reason |-> reason, token |-> tk, emitted |-> <<>>]

\* ERC20.balanceOf(account)
balanceOf(tk, account) == tk.balances[account]

\* ERC20._transfer(from, to, value)
_transfer(tk, from, to, value) ==
    IF from = ZeroAddress THEN Revert(tk, "ERC20InvalidSender")
    ELSE IF to = ZeroAddress THEN Revert(tk, "ERC20InvalidReceiver")
    ELSE IF balanceOf(tk, from) < value THEN Revert(tk, "ERC20InsufficientBalance")
    ELSE Returned([tk EXCEPT !.balances =
                      [[@ EXCEPT ![from] = @ - value] EXCEPT ![to] = @ + value]],
                  <<>>)

\* createWorld(worldId, entryFee)
createWorldAgain(tk, sender, worldId, entryFee) ==
    IF entryFee <= 0 THEN Revert(tk, "Entry fee must be > 0")
    ELSE Returned([tk EXCEPT !.worldCreators[worldId] = sender,
                             !.worldEntryFees[worldId] = entryFee],
                  <<"WorldCreated", worldId, sender, entryFee>>)

createWorld(tk, sender, worldId, entryFee) ==
    IF tk.worldCreators[worldId] # ZeroAddress THEN Revert(tk, "World already exists")
    ELSE IF entryFee <= 0 THEN Revert(tk, "Entry fee must be > 0")
    ELSE Returned([tk EXCEPT !.worldCreators[worldId] = sender,
                             !.worldEntryFees[worldId] = entryFee],
                  <<"WorldCreated", worldId, sender, entryFee>>)

\* enterWorld(worldId): the balance requirement is commented out; the two
\* transfers are made only if the caller's balance covers the fee, and the
\* event is emitted either way.
enterWorld(tk, sender, worldId) ==
    IF tk.worldCreators[worldId] = ZeroAddress THEN Revert(tk, "World does not exist")
    ELSE LET fee == tk.worldEntryFees[worldId]
             creatorShare == (fee * 70) \div 100
             platformShare == fee - creatorShare
             entered == <<"AgentEntered", worldId, sender, fee>>
         IN  IF balanceOf(tk, sender) >= fee
             THEN LET toCreator == _transfer(tk, sender, tk.worldCreators[worldId],
                                             creatorShare)
                  IN  IF toCreator.reverted THEN Revert(tk, toCreator.reason)
                      ELSE LET toPlatform == _transfer(toCreator.token, sender,
                                                       tk.platformWallet, platformShare)
                           IN  IF toPlatform.reverted THEN Revert(tk, toPlatform.reason)
                               ELSE Returned(toPlatform.token, entered)
             ELSE Returned(tk, entered)

\* distributeReward(worldId, agent, amount)
distributeReward(tk, sender, worldId, agent, amount) ==
    IF sender # tk.worldCreators[worldId]
    THEN Revert(tk, "Only world creator can reward")
    ELSE IF balanceOf(tk, sender) < amount
    THEN Revert(tk, "Insufficient balance for reward")
    ELSE LET paid == _transfer(tk, sender, agent, amount)
         IN  IF paid.reverted THEN Revert(tk, paid.reason)
             ELSE Returned([paid.token EXCEPT
                               !.agentWorldBalances[worldId][agent] = @ + amount],
                           <<"RewardDistributed", worldId, agent, amount>>)

\* updatePlatformWallet(newWallet), onlyOwner (Ownable)
updatePlatformWallet(tk, sender, newWallet) ==
    IF sender # tk.owner THEN Revert(tk, "OwnableUnauthorizedAccount")
    ELSE Returned([tk EXCEPT !.platformWallet = newWallet], <<>>)

\* ERC20.transfer(to, value)
transfer(tk, sender, to, value) == _transfer(tk, sender, to, value)

\* What is known of a mined transaction: the call and its outcome.
Receipt(fn, sender, args, outcome) ==
    [fn |-> fn, sender |-> sender, args |-> args,
     reverted |-> outcome.reverted, reason |-> outcome.reason,
     emitted |-> outcome.emitted]

CreateWorld(sender, worldId, entryFee) ==
    LET outcome == createWorld(token, sender, worldId, entryFee)
    IN  /\ token' = outcome.token
        /\ tokenTx' = Receipt("createWorld", sender, <<worldId, entryFee>>, outcome)
        /\ UNCHANGED offToken

EnterWorld(sender, worldId) ==
    LET outcome == enterWorld(token, sender, worldId)
    IN  /\ token' = outcome.token
        /\ tokenTx' = Receipt("enterWorld", sender, <<worldId>>, outcome)
        /\ UNCHANGED offToken

\* The sum of everything rewarded so far.
RECURSIVE SumOver(_, _)
SumOver(f, S) ==
    IF S = {} THEN 0
    ELSE LET x == CHOOSE y \in S : TRUE IN f[x] + SumOver(f, S \ {x})

Rewarded ==
    SumOver([w \in WorldIds |-> SumOver(token.agentWorldBalances[w], TokenAddresses)],
            WorldIds)

DistributeReward(sender, worldId, agent, amount) ==
    LET outcome == distributeReward(token, sender, worldId, agent, amount)
    IN  /\ Rewarded + amount <= MaxRewarded
        /\ token' = outcome.token
        /\ tokenTx' = Receipt("distributeReward", sender, <<worldId, agent, amount>>,
                              outcome)
        /\ UNCHANGED offToken

UpdatePlatformWallet(sender, newWallet) ==
    LET outcome == updatePlatformWallet(token, sender, newWallet)
    IN  /\ token' = outcome.token
        /\ tokenTx' = Receipt("updatePlatformWallet", sender, <<newWallet>>, outcome)
        /\ UNCHANGED offToken

Transfer(sender, to, value) ==
    LET outcome == transfer(token, sender, to, value)
    IN  /\ token' = outcome.token
        /\ tokenTx' = Receipt("transfer", sender, <<to, value>>, outcome)
        /\ UNCHANGED offToken

\* The transactions sent to a deployed MONToken.
NextToken ==
    \/ \E sender \in Callers, w \in WorldIds, fee \in Fees : CreateWorld(sender, w, fee)
    \/ \E sender \in Callers, w \in WorldIds : EnterWorld(sender, w)
    \/ \E sender \in Callers, w \in WorldIds, agent \in Callers, amount \in 0..MaxRewarded :
            DistributeReward(sender, w, agent, amount)
    \/ \E sender \in Callers, newWallet \in TokenAddresses :
            UpdatePlatformWallet(sender, newWallet)
    \/ \E sender \in Callers, to \in TokenAddresses : Transfer(sender, to, 1)

----------------------------------------------------------------------------
(* The dashboards: frontend/app.js ("app"), the wallet dashboard ("wallet"), *)
(* the legacy dashboard ("legacy") and the Next.js simulation page ("next"). *)

Dashboards == {"app", "wallet", "legacy", "next"}

ChartPoints(d) ==
    CASE d = "app" -> AppChartPoints
      [] d = "wallet" -> WalletChartPoints
      [] d = "legacy" -> LegacyChartPoints
      [] d = "next" -> NextChartPoints

EventsShown(d) ==
    CASE d = "app" -> AppEventsShown
      [] d = "wallet" -> WalletEventsShown
      [] d = "legacy" -> LegacyEventsShown
      [] d = "next" -> NextEventsShown

\* What the server reports for the step that takes its world to time t: the
\* price and the actions of that step.
ActionTypes3 == <<"trade", "observe", "communicate">>

PriceAt(t) == 100 + ((t * 7) % 11)

ActionsAt(t) ==
    [j \in 1..(t % (MaxBatch + 1)) |->
        [agent |-> j,
         type |-> ActionTypes3[((t + j) % 3) + 1],
         success |-> ((t \div 3) + j) % 2 = 0]]

StepData(t) == [time |-> t, price |-> PriceAt(t), actions |-> ActionsAt(t)]

\* A point of the series and a line of the feed.
Point(tm, price) == [time |-> tm, price |-> price]
EventLine(tm, action) == <<"event", tm, action.agent, action.type, action.success>>
LogLine(category, message) == <<"log", category, message>>
EmptyState == <<"empty-state">>

Times(ph) == [k \in 1..Len(ph) |-> ph[k].time]
Prices(ph) == [k \in 1..Len(ph) |-> ph[k].price]
EventLines(tm, actions) == [k \in 1..Len(actions) |-> EventLine(tm, actions[k])]

EmptyChart == [labels |-> <<>>, data |-> <<>>]

\* app.js and the wallet dashboard: push to both arrays, then shift both when
\* the labels have grown past the window.
pushPointNoShift(pd, tm, price, maxPoints) ==
    [labels |-> Append(pd.labels, tm), data |-> Append(pd.data, price)]

pushPoint(pd, tm, price, maxPoints) ==
    LET labels == Append(pd.labels, tm)
        data == Append(pd.data, price)
    IN  IF Len(labels) > maxPoints
        THEN [labels |-> Tail(labels), data |-> Tail(data)]
        ELSE [labels |-> labels, data |-> data]

\* The legacy dashboard's updateChart(time, price): the new priceHistory.
updateChart(ph, tm, price) ==
    LET pushed == Append(ph, Point(tm, price))
    IN  IF Len(pushed) > LegacyChartPoints THEN Tail(pushed) ELSE pushed

\* Array.prototype.slice(-n) and slice(0, n).
sliceLast(arr, n) ==
    SubSeq(arr, (IF Len(arr) > n THEN Len(arr) - n ELSE 0) + 1, Len(arr))

sliceFirst(arr, n) == SubSeq(arr, 1, IF Len(arr) > n THEN n ELSE Len(arr))

\* while (list.children.length > max) list.removeChild(list.firstChild)
RECURSIVE removeLasts(_, _)
removeLasts(list, maxShown) ==
    IF Len(list) > maxShown
    THEN removeLasts(SubSeq(list, 1, Len(list) - 1), maxShown)
    ELSE list

removeNewest(list, maxShown) == removeLasts(list, maxShown)

RECURSIVE removeFirsts(_, _)
removeFirsts(list, maxShown) ==
    IF Len(list) > maxShown THEN removeFirsts(Tail(list), maxShown) ELSE list

\* app.js: every action of the step is appended, then the list is trimmed.
appEvents(list, tm, actions) ==
    removeFirsts(list \o EventLines(tm, actions), AppEventsShown)

\* Wallet dashboard: addEventToFeed and addEventLog append one line and trim.
addEventToFeed(list, line) == removeFirsts(Append(list, line), WalletEventsShown)

addEventLog(list, category, message) ==
    removeFirsts(Append(list, LogLine(category, message)), WalletEventsShown)

RECURSIVE walletEvents(_, _, _)
walletEvents(list, tm, actions) ==
    IF actions = <<>> THEN list
    ELSE walletEvents(addEventToFeed(list, EventLine(tm, Head(actions))),
                      tm, Tail(actions))

\* Legacy dashboard, updateEvents(actions): the placeholder is cleared, then
\* each action is inserted at the top and the list trimmed from the bottom.
RECURSIVE insertEvents(_, _, _)
insertEvents(list, tm, actions) ==
    IF actions = <<>> THEN list
    ELSE insertEvents(removeLasts(<<EventLine(tm, Head(actions))>> \o list,
                                  LegacyEventsShown),
                      tm, Tail(actions))

updateEvents(list, tm, actions) ==
    insertEvents(IF \E k \in 1..Len(list) : list[k] = EmptyState THEN <<>> ELSE list,
                 tm, actions)

\* Next.js page: setEvents(prev => [...newEvents, ...prev].slice(0, 20)),
\* only when the step has actions.
setEvents(prev, tm, actions) ==
    IF Len(actions) > 0
    THEN sliceFirst(EventLines(tm, actions) \o prev, NextEventsShown)
    ELSE prev

\* What the history keeps of the points pushed and of the lines added.
pushed(d, pts, point) == sliceLast(Append(pts, point), ChartPoints(d) + 1)

added(d, lines, new) ==
    IF d = "next"
    THEN sliceFirst(new \o lines, EventsShown(d) + 1)
    ELSE sliceLast(lines \o new, EventsShown(d) + 1)

\* The page as loaded.
InitDash(d) ==
    /\ dash = d
    /\ srvTime = 0
    /\ priceData = EmptyChart
    /\ priceHistory = <<>>
    /\ feed = IF d = "legacy" THEN <<EmptyState>> ELSE <<>>
    /\ points = <<>>
    /\ entries = <<>>
    /\ extras = 0
    /\ op = "load"

\* app.js: updateDashboard(stepData), from a step/auto_step message or from
\* the results of the step button.
AppUpdateDashboard ==
    LET stepData == StepData(srvTime + 1)
    IN  /\ dash = "app"
        /\ srvTime < MaxSteps
        /\ srvTime' = srvTime + 1
        /\ priceData' = pushPoint(priceData, stepData.time, stepData.price,
                                  AppChartPoints)
        /\ feed' = appEvents(feed, stepData.time, stepData.actions)
        /\ points' = pushed(dash, points, Point(stepData.time, stepData.price))
        /\ entries' = added(dash, entries, EventLines(stepData.time, stepData.actions))
        /\ op' = "update"
        /\ UNCHANGED <<dash, priceHistory, extras, offDash>>

\* app.js: createSimulation, the request having succeeded:
\* updateDashboard({state: data.world, time: 0, actions: []}).
AppCreateSimulation ==
    /\ dash = "app"
    /\ extras < MaxExtras
    /\ extras' = extras + 1
    /\ srvTime' = 0
    /\ priceData' = pushPoint(priceData, 0, PriceAt(0), AppChartPoints)
    /\ feed' = appEvents(feed, 0, <<>>)
    /\ points' = pushed(dash, points, Point(0, PriceAt(0)))
    /\ op' = "create"
    /\ UNCHANGED <<dash, priceHistory, entries, offDash>>

\* app.js: resetSimulation; nothing is cleared when the request throws.
AppResetSimulation(ok) ==
    /\ dash = "app"
    /\ IF ok
       THEN /\ srvTime' = 0
            /\ priceData' = EmptyChart
            /\ feed' = <<>>
            /\ points' = <<>>
            /\ entries' = <<>>
            /\ extras' = 0
            /\ op' = "reset"
       ELSE /\ op' = "reset failed"
            /\ UNCHANGED <<srvTime, priceData, feed, points, entries, extras>>
    /\ UNCHANGED <<dash, priceHistory, offDash>>

\* Wallet dashboard: addTransactionLog(agentId, actionType, txHash, status).
\* The line remembers, as history, the action it was written for.
addTransactionLog(log, action, status) ==
    removeFirsts(Append(log, [agentId |-> action.agent, actionType |-> action.type,
                              status |-> status, of |-> action]),
                 WalletTxShown)

\* Wallet dashboard: logActionOnChain(agentId, actionType, actionData, worldTime).
logActionOnChainAlways(log, enabled, ctr, account, action) ==
    addTransactionLog(log, action, "pending")

logActionOnChain(log, enabled, ctr, account, action) ==
    IF ~enabled \/ ~ctr \/ account = "null"
    THEN log
    ELSE addTransactionLog(log, action, "pending")

\* Wallet dashboard, updateDashboard: the on-chain part of
\* stepData.actions.forEach.
RECURSIVE walletLogs(_, _, _, _, _)
walletLogs(log, enabled, ctr, account, actions) ==
    IF actions = <<>> THEN log
    ELSE LET action == Head(actions)
             logged == IF action.type = "trade" /\ action.success
                       THEN logActionOnChain(log, enabled, ctr, account, action)
                       ELSE log
         IN  walletLogs(logged, enabled, ctr, account, Tail(actions))

\* Wallet dashboard: updateDashboard(stepData).
WalletUpdateDashboard(stepData) ==
        /\ dash = "wallet"
        /\ srvTime < MaxSteps
        /\ txLog' = walletLogs(txLog, onChainLoggingEnabled, contract, userAccount,
                               stepData.actions)
        /\ lastStep' = stepData
        /\ UNCHANGED <<onChainLoggingEnabled, contract, userAccount, configLoaded>>
        /\ srvTime' = srvTime + 1
        /\ priceData' = pushPoint(priceData, stepData.time, stepData.price,
                                  WalletChartPoints)
        /\ feed' = walletEvents(feed, stepData.time, stepData.actions)
        /\ points' = pushed(dash, points, Point(stepData.time, stepData.price))
        /\ entries' = added(dash, entries, EventLines(stepData.time, stepData.actions))
        /\ op' = "update"
        /\ UNCHANGED <<dash, priceHistory, extras, offWallet>>

\* Wallet dashboard: createSimulation, the request having succeeded.
WalletCreateSimulation ==
    /\ dash = "wallet"
    /\ extras < MaxExtras
    /\ extras' = extras + 1
    /\ srvTime' = 0
    /\ priceData' = pushPoint(priceData, 0, PriceAt(0), WalletChartPoints)
    /\ feed' = addEventLog(walletEvents(feed, 0, <<>>),
                           "System", "Simulation created successfully")
    /\ points' = pushed(dash, points, Point(0, PriceAt(0)))
    /\ entries' = added(dash, entries, <<LogLine("System", "Simulation created successfully")>>)
    /\ op' = "create"
    /\ UNCHANGED <<dash, priceHistory, offDash>>

\* Wallet dashboard: startSimulation, the request having succeeded.
WalletStartSimulation ==
    /\ dash = "wallet"
    /\ extras < MaxExtras
    /\ extras' = extras + 1
    /\ feed' = addEventLog(feed, "System", "Simulation started")
    /\ entries' = added(dash, entries, <<LogLine("System", "Simulation started")>>)
    /\ op' = "start"
    /\ UNCHANGED <<dash, srvTime, priceData, priceHistory, points, offDash>>

\* Wallet dashboard: resetSimulation; nothing is cleared when the request
\* throws.
WalletResetSimulation(ok) ==
    /\ dash = "wallet"
    /\ IF ok
       THEN /\ srvTime' = 0
            /\ priceData' = EmptyChart
            /\ feed' = addEventLog(<<>>, "System", "Simulation reset")
            /\ points' = <<>>
            /\ entries' = <<LogLine("System", "Simulation reset")>>
            /\ extras' = 0
            /\ op' = "reset"
       ELSE /\ op' = "reset failed"
            /\ UNCHANGED <<srvTime, priceData, feed, points, entries, extras>>
    /\ UNCHANGED <<dash, priceHistory, offDash>>

\* The buttons of the legacy dashboard that send a request when clicked.
Buttons == {"create", "start", "stop", "step", "reset"}

NoFetch == [b \in Buttons |-> 0]

\* The fetch of button b has been answered.
Answered(b) == [pending EXCEPT ![b] = @ - 1]

\* The page as served: Create and Reset can be clicked, the others cannot.
InitButtons ==
    /\ disabled = [b \in Buttons |-> b \in {"start", "stop", "step"}]
    /\ pending = NoFetch
    /\ clicks = 0

\* Legacy dashboard: handleSimulationUpdate(data), from a WebSocket message
\* or from the results of the step button; fetches is what is then still
\* unanswered.
LegacyHandleSimulationUpdate(fetches) ==
    LET stepData == StepData(srvTime + 1)
        history == updateChart(priceHistory, stepData.time, stepData.price)
    IN  /\ dash = "legacy"
        /\ pending' = fetches
        /\ srvTime < MaxSteps
        /\ srvTime' = srvTime + 1
        /\ priceHistory' = history
        /\ priceData' = [labels |-> Times(history), data |-> Prices(history)]
        /\ feed' = updateEvents(feed, stepData.time, stepData.actions)
        /\ points' = pushed(dash, points, Point(stepData.time, stepData.price))
        /\ entries' = added(dash, entries, EventLines(stepData.time, stepData.actions))
        /\ op' = "update"
        /\ UNCHANGED <<dash, extras, disabled, clicks, offLegacy>>

\* Legacy dashboard: a click on button b, which a disabled button does not
\* take; its listener runs up to the await of its fetch.
LegacyClick(b) ==
    /\ dash = "legacy"
    /\ ~disabled[b]
    /\ clicks < MaxClicks
    /\ clicks' = clicks + 1
    /\ pending' = [pending EXCEPT ![b] = @ + 1]
    /\ UNCHANGED <<dashVars, disabled, offLegacy>>

\* Legacy dashboard: a fetch answered with another status than the one its
\* handler tests for, or rejected: nothing on the page changes.
LegacyRefused(b) ==
    /\ dash = "legacy"
    /\ pending[b] > 0
    /\ pending' = Answered(b)
    /\ UNCHANGED <<dashVars, disabled, clicks, offLegacy>>

\* Legacy dashboard: createSimulation answered with status 'created'.
LegacyCreateSimulation(fetches) ==
    LET history == updateChart(<<>>, 0, PriceAt(0))
    IN  /\ dash = "legacy"
        /\ pending' = fetches
        /\ disabled' = [disabled EXCEPT !["start"] = FALSE, !["step"] = FALSE]
        /\ extras' = extras + 1
        /\ srvTime' = 0
        /\ priceHistory' = history
        /\ priceData' = [labels |-> Times(history), data |-> Prices(history)]
        /\ points' = <<Point(0, PriceAt(0))>>
        /\ op' = "create"
        /\ UNCHANGED <<dash, feed, entries, clicks, offLegacy>>

\* Legacy dashboard: startSimulation answered with status 'started'.
LegacyStartSimulation(fetches) ==
    /\ dash = "legacy"
    /\ pending' = fetches
    /\ disabled' = [disabled EXCEPT !["start"] = TRUE, !["stop"] = FALSE,
                                    !["step"] = TRUE, !["create"] = TRUE]
    /\ UNCHANGED <<dashVars, clicks, offLegacy>>

\* Legacy dashboard: stopSimulation answered with status 'stopped'.
LegacyStopSimulation(fetches) ==
    /\ dash = "legacy"
    /\ pending' = fetches
    /\ disabled' = [disabled EXCEPT !["start"] = FALSE, !["stop"] = TRUE,
                                    !["step"] = FALSE, !["create"] = FALSE]
    /\ UNCHANGED <<dashVars, clicks, offLegacy>>

\* Legacy dashboard: resetSimulation; nothing is cleared unless the answer
\* has status 'reset'.
LegacyResetSimulation(ok, fetches) ==
    /\ dash = "legacy"
    /\ pending' = fetches
    /\ IF ok
       THEN /\ disabled' = [disabled EXCEPT !["start"] = TRUE, !["stop"] = TRUE,
                                            !["step"] = TRUE, !["create"] = FALSE]
            /\ srvTime' = 0
            /\ priceHistory' = <<>>
            /\ priceData' = EmptyChart
            /\ feed' = <<EmptyState>>
            /\ points' = <<>>
            /\ entries' = <<>>
            /\ extras' = 0
            /\ op' = "reset"
       ELSE /\ op' = "reset failed"
            /\ UNCHANGED <<srvTime, priceHistory, priceData, feed, points, entries,
                           extras, disabled>>
    /\ UNCHANGED <<dash, clicks, offLegacy>>

\* seq without its k-th element.
Without(seq, k) == SubSeq(seq, 1, k - 1) \o SubSeq(seq, k + 1, Len(seq))

\* Next.js page: the world of the page's URL, and the worlds the server
\* broadcasts updates of.
WorldShown == "w1"
Broadcast == {"w1", "w2"}

\* A JavaScript object is the record of the properties it has; null has
\* none of those the page reads.
Null == [null |-> TRUE]

\* { ...obj, f: v, ... }
Spread(obj, props) ==
    [f \in (DOMAIN obj \ {"null"}) \cup DOMAIN props |->
        IF f \in DOMAIN props THEN props[f] ELSE obj[f]]

\* world.running as a condition: a missing property is undefined, which
\* is falsy.
Running(w) == "running" \in DOMAIN w /\ w.running

\* The state the server reports of the world at time tm.
WorldState(tm) == [time |-> tm, market_price |-> PriceAt(tm)]

InitSim ==
    /\ theWorld = Null
    /\ toggles = <<>>
    /\ lastUpdate = Null

\* Next.js page: a world_update message; one for another world than the one
\* shown is ignored.  The chart is drawn from priceHistory.
NextWorldUpdate(id) ==
    LET data == StepData(srvTime + 1)
        state == WorldState(data.time)
        newHistory == Append(priceHistory, Point(data.time, state.market_price))
    IN  /\ dash = "next"
        /\ srvTime < MaxSteps
        /\ IF id = WorldShown
           THEN /\ srvTime' = srvTime + 1
                /\ theWorld' = Spread(theWorld, [state |-> state, time |-> data.time])
                /\ lastUpdate' = [state |-> state, time |-> data.time]
                /\ priceHistory' = sliceLast(newHistory, NextChartPoints)
                /\ priceData' = [labels |-> Times(priceHistory'),
                                 data |-> Prices(priceHistory')]
                /\ feed' = setEvents(feed, data.time, data.actions)
                /\ points' = pushed(dash, points, Point(data.time, data.price))
                /\ entries' = added(dash, entries, EventLines(data.time, data.actions))
                /\ op' = "update"
                /\ UNCHANGED <<dash, extras, toggles, clicks, offSim>>
           ELSE UNCHANGED vars

\* Next.js page: initWorld, the details having been fetched: they replace
\* the world, and the series starts again from the point fetched.
NextInitWorld(running) ==
    /\ dash = "next"
    /\ extras < MaxExtras
    /\ extras' = extras + 1
    /\ theWorld' = [state |-> WorldState(srvTime), running |-> running]
    /\ lastUpdate' = Null
    /\ priceHistory' = <<Point(theWorld'.state.time, theWorld'.state.market_price)>>
    /\ priceData' = [labels |-> Times(priceHistory'), data |-> Prices(priceHistory')]
    /\ points' = priceHistory'
    /\ op' = "init"
    /\ UNCHANGED <<dash, srvTime, feed, entries, toggles, clicks, offSim>>

\* Next.js page: a click on the Stop/Resume button; toggleSim runs up to
\* the await of stopWorld or startWorld, holding the world of the render
\* the click was made on.
NextToggleSim ==
    /\ dash = "next"
    /\ theWorld # Null
    /\ clicks < MaxClicks
    /\ clicks' = clicks + 1
    /\ toggles' = Append(toggles, theWorld)
    /\ op' = "click"
    /\ UNCHANGED <<dash, srvTime, priceData, priceHistory, feed, points, entries,
                   extras, theWorld, lastUpdate, offSim>>

\* Next.js page: the request of the k-th toggleSim awaiting is answered;
\* one that fails is logged and changes nothing.
NextToggled(k, ok) ==
    /\ dash = "next"
    /\ k \in 1..Len(toggles)
    /\ toggles' = Without(toggles, k)
    /\ IF ok
       THEN /\ theWorld' = Spread(toggles[k], [running |-> ~Running(toggles[k])])
            /\ op' = "toggle"
       ELSE /\ op' = "toggle failed"
            /\ UNCHANGED theWorld
    /\ UNCHANGED <<dash, srvTime, priceData, priceHistory, feed, points, entries,
                   extras, lastUpdate, clicks, offSim>>

\* The callbacks of the dashboard shown.
NextDash ==
    \/ AppUpdateDashboard
    \/ AppCreateSimulation
    \/ \E ok \in BOOLEAN : AppResetSimulation(ok)
    \/ WalletUpdateDashboard(StepData(srvTime + 1))
    \/ WalletCreateSimulation
    \/ WalletStartSimulation
    \/ \E ok \in BOOLEAN : WalletResetSimulation(ok)
    \/ LegacyHandleSimulationUpdate(pending)
    \/ extras < MaxExtras /\ LegacyCreateSimulation(pending)
    \/ \E ok \in BOOLEAN : LegacyResetSimulation(ok, pending)
    \/ \E id \in Broadcast : NextWorldUpdate(id)
    \/ \E running \in BOOLEAN : NextInitWorld(running)

\* The legacy dashboard's buttons: the clicks, and the answers to the fetches
\* in whatever order they arrive.
NextButtons ==
    \/ \E b \in Buttons : LegacyClick(b)
    \/ \E b \in Buttons \ {"reset"} : LegacyRefused(b)
    \/ pending["create"] > 0 /\ LegacyCreateSimulation(Answered("create"))
    \/ pending["start"] > 0 /\ LegacyStartSimulation(Answered("start"))
    \/ pending["stop"] > 0 /\ LegacyStopSimulation(Answered("stop"))
    \/ pending["step"] > 0 /\ LegacyHandleSimulationUpdate(Answered("step"))
    \/ /\ pending["reset"] > 0
       /\ \E ok \in BOOLEAN : LegacyResetSimulation(ok, Answered("reset"))

----------------------------------------------------------------------------
(* The wallet dashboard's wallet and on-chain logging *)

Accounts == {"0xUser", "0xOther"}

InitWallet ==
    /\ onChainLoggingEnabled = FALSE
    /\ contract = FALSE
    /\ userAccount = "null"
    /\ configLoaded = FALSE
    /\ txLog = <<>>
    /\ lastStep = StepData(0)

\* loadBlockchainConfig(), at page load, finding a deployed contract.
LoadBlockchainConfig ==
    /\ dash = "wallet"
    /\ ~configLoaded
    /\ configLoaded' = TRUE
    /\ UNCHANGED <<onChainLoggingEnabled, contract, userAccount, txLog, lastStep,
                   dashVars, offWallet>>

\* connectWallet(), the wallet granting access to an account.
ConnectWallet(account) ==
    /\ dash = "wallet"
    /\ extras < MaxToggles
    /\ extras' = extras + 1
    /\ userAccount' = account
    /\ contract' = IF configLoaded THEN TRUE ELSE contract
    /\ feed' = addEventLog(feed, "Wallet", "Connected")
    /\ entries' = added(dash, entries, <<LogLine("Wallet", "Connected")>>)
    /\ op' = "connectWallet"
    /\ UNCHANGED <<onChainLoggingEnabled, configLoaded, txLog, lastStep,
                   dash, srvTime, priceData, priceHistory, points, offWallet>>

\* handleAccountsChanged(accounts): disconnectWallet() when the list is
\* empty, a switch when its first account is another one.
HandleAccountsChanged(accounts) ==
    /\ dash = "wallet"
    /\ extras < MaxToggles
    /\ extras' = extras + 1
    /\ op' = "accountsChanged"
    /\ IF Len(accounts) = 0
       THEN /\ userAccount' = "null"
            /\ onChainLoggingEnabled' = FALSE
            /\ feed' = addEventLog(feed, "Wallet", "Disconnected")
            /\ entries' = added(dash, entries, <<LogLine("Wallet", "Disconnected")>>)
       ELSE IF accounts[1] # userAccount
       THEN /\ userAccount' = accounts[1]
            /\ feed' = addEventLog(feed, "Wallet", "Switched")
            /\ entries' = added(dash, entries, <<LogLine("Wallet", "Switched")>>)
            /\ UNCHANGED onChainLoggingEnabled
       ELSE UNCHANGED <<userAccount, onChainLoggingEnabled, feed, entries>>
    /\ UNCHANGED <<contract, configLoaded, txLog, lastStep,
                   dash, srvTime, priceData, priceHistory, points, offWallet>>

\* toggleOnChainLogging()
ToggleOnChainLogging ==
    /\ dash = "wallet"
    /\ extras < MaxToggles
    /\ extras' = extras + 1
    /\ onChainLoggingEnabled' = ~onChainLoggingEnabled
    /\ feed' = addEventLog(feed, "Blockchain",
                           IF onChainLoggingEnabled' THEN "On-chain logging enabled"
                                                     ELSE "On-chain logging disabled")
    /\ entries' = added(dash, entries,
                        <<LogLine("Blockchain",
                                  IF onChainLoggingEnabled' THEN "On-chain logging enabled"
                                                            ELSE "On-chain logging disabled")>>)
    /\ op' = "toggleLogging"
    /\ UNCHANGED <<contract, userAccount, configLoaded, txLog, lastStep,
                   dash, srvTime, priceData, priceHistory, points, offWallet>>

\* The timer logActionOnChain sets: updateTransactionStatus(hash, 'confirmed')
\* for the oldest line still pending.
UpdateTransactionStatus ==
    /\ \E k \in 1..Len(txLog) : txLog[k].status = "pending"
    /\ LET k == CHOOSE n \in 1..Len(txLog) :
                   /\ txLog[n].status = "pending"
                   /\ \A m \in 1..(n - 1) : txLog[m].status # "pending"
       IN  txLog' = [txLog EXCEPT ![k].status = "confirmed"]
    /\ op' = "confirm"
    /\ UNCHANGED <<onChainLoggingEnabled, contract, userAccount, configLoaded, lastStep,
                   dash, srvTime, priceData, priceHistory, feed, points, entries, extras,
                   offWallet>>

\* The steps a server can report: none, one or two actions, trades and
\* others, succeeding and failing.
Trade(ok) == [agent |-> 1, type |-> "trade", success |-> ok]
Observation == [agent |-> 2, type |-> "observe", success |-> TRUE]
Batches == {<<>>, <<Trade(TRUE)>>, <<Trade(FALSE)>>, <<Observation>>,
            <<Trade(FALSE), Trade(TRUE)>>}

ReportedStep(actions) ==
    /\ srvTime < MaxChainSteps
    /\ WalletUpdateDashboard([time |-> srvTime + 1, price |-> PriceAt(srvTime + 1),
                              actions |-> actions])

NextChain ==
    \/ LoadBlockchainConfig
    \/ \E account \in Accounts : ConnectWallet(account)
    \/ \E accounts \in {<<>>, <<"0xUser">>, <<"0xOther">>} : HandleAccountsChanged(accounts)
    \/ ToggleOnChainLogging
    \/ UpdateTransactionStatus
    \/ \E actions \in Batches : ReportedStep(actions)

----------------------------------------------------------------------------
(* The WebSocket of the vanilla dashboards (initWebSocket, connectWebSocket) *)

VanillaDashboards == {"app", "wallet", "legacy"}

ReconnectDelay(d) ==
    CASE d = "app" -> AppReconnectMs
      [] d = "wallet" -> WalletReconnectMs
      [] d = "legacy" -> LegacyReconnectMs
      [] OTHER -> 0

InitConn ==
    /\ loaded = FALSE
    /\ sockets = <<>>
    /\ timers = <<>>
    /\ serverUp = FALSE
    /\ attempts = 0

\* The page, whichever it is, before any of its callbacks has run.
InitPage(d) ==
    /\ InitDash(d)
    /\ InitConn
    /\ InitWallet
    /\ InitButtons
    /\ InitSim


\* ws.onerror: the error is logged.
onerrorReconnects(d, tms) == Append(tms, ReconnectDelay(d))

onerror(d, tms) == tms

\* ws.onclose: setTimeout(initWebSocket, delay)
onclose(d, tms) == Append(tms, ReconnectDelay(d))

\* ws.onopen: the wallet dashboard writes a line to its feed, the others to
\* the console.
onopen(d, list) ==
    IF d = "wallet" THEN addEventLog(list, "System", "WebSocket connected") ELSE list

\* initWebSocket(): ws = new WebSocket(WS_URL), with its four handlers.
initWebSocket(socks) == Append(socks, "connecting")

Counted(n) == IF n < MaxAttempts THEN n + 1 ELSE n

\* DOMContentLoaded: the first connection attempt.
PageLoaded ==
    /\ dash \in VanillaDashboards
    /\ ~loaded
    /\ loaded' = TRUE
    /\ sockets' = initWebSocket(sockets)
    /\ attempts' = Counted(attempts)
    /\ UNCHANGED <<timers, serverUp, dashVars, offPage>>

\* A reconnect timer fires: initWebSocket runs again.
TimerFires ==
    /\ timers # <<>>
    /\ timers' = Tail(timers)
    /\ sockets' = initWebSocket(sockets)
    /\ attempts' = Counted(attempts)
    /\ UNCHANGED <<loaded, serverUp, dashVars, offPage>>

\* The handshake of a connecting socket completes: onopen.
SocketOpens(k) ==
    /\ sockets[k] = "connecting"
    /\ serverUp
    /\ sockets' = [sockets EXCEPT ![k] = "open"]
    /\ feed' = onopen(dash, feed)
    /\ entries' = IF dash = "wallet"
                  THEN added(dash, entries, <<LogLine("System", "WebSocket connected")>>)
                  ELSE entries
    /\ op' = "open"
    /\ UNCHANGED <<loaded, timers, serverUp, attempts,
                   dash, srvTime, priceData, priceHistory, points, extras, offPage>>

\* A connection attempt fails: the browser fires error, then close.
SocketFails(k) ==
    /\ sockets[k] = "connecting"
    /\ ~serverUp
    /\ sockets' = Without(sockets, k)
    /\ timers' = onclose(dash, onerror(dash, timers))
    /\ UNCHANGED <<loaded, serverUp, attempts, dashVars, offPage>>

\* An open socket closes, cleanly or after an error.
SocketCloses(k, withError) ==
    /\ sockets[k] = "open"
    /\ sockets' = Without(sockets, k)
    /\ timers' = onclose(dash, IF withError THEN onerror(dash, timers) ELSE timers)
    /\ UNCHANGED <<loaded, serverUp, attempts, dashVars, offPage>>

\* The server starts or stops accepting connections.
ServerTurns ==
    /\ serverUp' = ~serverUp
    /\ UNCHANGED <<loaded, sockets, timers, attempts, dashVars, offPage>>

NextSocket ==
    \/ PageLoaded
    \/ TimerFires
    \/ \E k \in 1..Len(sockets) : SocketOpens(k)
    \/ \E k \in 1..Len(sockets) : SocketFails(k)
    \/ \E k \in 1..Len(sockets), withError \in BOOLEAN : SocketCloses(k, withError)
    \/ ServerTurns

----------------------------------------------------------------------------
(* world.js *)

\* World.resolve(action): this.events.push(action)
resolveDrop(evs, action) == evs

resolveUnshift(evs, action) == <<action>> \o evs

resolveLatest(evs, action) == <<action>>

resolve(evs, action) == Append(evs, action)

\* The call agent.decide(this) in step() returns (Agent.decide always does).
HasDecide(agent) == agent \in AgentRefs

\* The state after the constructors have run.
InitWorld ==
    /\ objs = [o \in AgentRefs |-> Agent(Names[((o - 1) % Len(Names)) + 1])]
    /\ time = 0
    /\ agents = <<>>
    /\ events = <<>>
    /\ pc = "idle"
    /\ i = 0
    /\ thrown = FALSE
    /\ obs = NoObs
    /\ regAt = <<>>
    /\ nsteps = 0
    /\ writes = 0
    /\ resets = 0

Init ==
    /\ InitWorld
    /\ InitLogger(0)
    /\ InitToken(Treasury)
    /\ InitPage("app")

\* World.registerAgent(agent)
RegisterAgentFront(agent) ==
    /\ pc = "idle"
    /\ Len(agents) < MaxAgents
    /\ agents' = <<agent>> \o agents
    /\ regAt' = <<time>> \o regAt
    /\ UNCHANGED <<objs, time, events, pc, i, thrown, obs, nsteps, writes, offWorld>>

RegisterAgent(agent) ==
    /\ pc = "idle"
    /\ Len(agents) < MaxAgents
    /\ agents' = Append(agents, agent)
    /\ regAt' = Append(regAt, time)
    /\ UNCHANGED <<objs, time, events, pc, i, thrown, obs, nsteps, writes, offWorld>>

\* World.step(), entry: this.time += 1, and the loop starts.
StepBeginReentrant ==
    /\ time < MaxTime
    /\ time' = time + 1
    /\ i' = 1
    /\ pc' = "loop"
    /\ thrown' = FALSE
    /\ nsteps' = nsteps + 1
    /\ UNCHANGED <<objs, agents, events, obs, regAt, writes, offWorld>>

StepBegin ==
    /\ pc = "idle"
    /\ time < MaxTime
    /\ time' = time + 1
    /\ i' = 1
    /\ pc' = "loop"
    /\ thrown' = FALSE
    /\ nsteps' = nsteps + 1
    /\ UNCHANGED <<objs, agents, events, obs, regAt, writes, offWorld>>

\* The actions of all registered agents at the current time, in list order.
RECURSIVE Batch(_)
Batch(k) ==
    IF k = 0 THEN <<>> ELSE Append(Batch(k - 1), decide(agents[k], World))

\* One iteration of the loop of step(): decide, then resolve at once.
StepAgentTicking ==
    /\ pc = "loop"
    /\ i <= Len(agents)
    /\ time' = time + 1
    /\ objs' = remember(agents[i], decide(agents[i], World))
    /\ events' = Append(events, decide(agents[i], World))
    /\ i' = i + 1
    /\ UNCHANGED <<agents, pc, thrown, obs, regAt, nsteps, writes, offWorld>>

StepAgentBatched ==
    /\ pc = "loop"
    /\ i <= Len(agents)
    /\ objs' = remember(agents[i], decide(agents[i], World))
    /\ events' = IF i = Len(agents) THEN events \o Batch(Len(agents)) ELSE events
    /\ i' = i + 1
    /\ UNCHANGED <<time, agents, pc, thrown, obs, regAt, nsteps, writes, offWorld>>

StepAgent ==
    /\ pc = "loop"
    /\ i <= Len(agents)
    /\ LET agent == agents[i] IN
        IF HasDecide(agent)
        THEN LET action == decide(agent, World) IN
            /\ objs' = remember(agent, action)
            /\ events' = resolve(events, action)
            /\ i' = i + 1
            /\ UNCHANGED <<pc, thrown>>
        ELSE \* the call throws and step() has no try/catch: it is left here
            /\ pc' = "idle"
            /\ thrown' = TRUE
            /\ i' = 0
            /\ UNCHANGED <<objs, events>>
    /\ UNCHANGED <<time, agents, obs, regAt, nsteps, writes, offWorld>>

\* The loop of step() is exhausted and step() returns.
StepReturn ==
    /\ pc = "loop"
    /\ i > Len(agents)
    /\ pc' = "idle"
    /\ i' = 0
    /\ UNCHANGED <<objs, time, agents, events, thrown, obs, regAt, nsteps, writes, offWorld>>

\* A caller keeps the value of agent.observe(world).
ObserveReversing(self) ==
    /\ pc = "idle"
    /\ obs' = observe(self, World)
    /\ events' = [p \in 1..Len(events) |-> events[Len(events) + 1 - p]]
    /\ UNCHANGED <<objs, time, agents, pc, i, thrown, regAt, nsteps, writes, offWorld>>

Observe(self) ==
    /\ pc = "idle"
    /\ obs' = observe(self, World)
    /\ UNCHANGED <<objs, time, agents, events, pc, i, thrown, regAt, nsteps, writes, offWorld>>

\* What a caller may do to an array it holds.
ArrayWrites(items) ==
    {Append(items, [agent |-> "caller", action |-> "forged", time |-> 0])}
        \cup (IF items = <<>> THEN {} ELSE {SubSeq(items, 1, Len(items) - 1)})

\* A caller writes to the value observe() returned to it (push or pop).
WriteObservation ==
    /\ pc = "idle"
    /\ obs.kind # "none"
    /\ writes < MaxWrites
    /\ writes' = writes + 1
    /\ IF obs.kind = "ref"
       THEN /\ \E w \in ArrayWrites(events) : events' = w
            /\ obs' = obs
       ELSE /\ \E w \in ArrayWrites(obs.items) : obs' = [obs EXCEPT !.items = w]
            /\ events' = events
    /\ UNCHANGED <<objs, time, agents, pc, i, thrown, regAt, nsteps, offWorld>>

\* The program made of World, Agent and callers that register, step, observe.
Next ==
    \/ \E a \in AgentRefs : RegisterAgent(a)
    \/ StepBegin
    \/ StepAgent
    \/ StepReturn
    \/ \E a \in AgentRefs : Observe(a)


Spec == Init /\ [][Next]_vars

\* An ActionLogger deployed with any initial fee, and the transactions sent
\* to it.
InitAnyFee ==
    /\ InitWorld
    /\ \E fee \in Fees : InitLogger(fee)
    /\ InitToken(Treasury)
    /\ InitPage("app")

SpecLogger == InitAnyFee /\ [][NextLogger]_vars

\* A MONToken deployed with any platform wallet, and the transactions sent
\* to it.
InitAnyWallet ==
    /\ InitWorld
    /\ InitLogger(0)
    /\ \E wallet \in TokenAddresses : InitToken(wallet)
    /\ InitPage("app")

SpecToken == InitAnyWallet /\ [][NextToken]_vars

\* Any of the four dashboards, loaded, and the callbacks that run on it.
InitAnyDash ==
    /\ InitWorld
    /\ InitLogger(0)
    /\ InitToken(Treasury)
    /\ \E d \in Dashboards : InitPage(d)

SpecDash == InitAnyDash /\ [][NextDash]_vars

\* A vanilla dashboard and its WebSocket.  The page does load, a timer that
\* is pending does fire, and a handshake with a server that accepts
\* connections does complete.
InitAnyVanilla ==
    /\ InitWorld
    /\ InitLogger(0)
    /\ InitToken(Treasury)
    /\ \E d \in VanillaDashboards : InitPage(d)

\* The legacy dashboard and its buttons.
InitLegacyDash ==
    /\ InitWorld
    /\ InitLogger(0)
    /\ InitToken(Treasury)
    /\ InitPage("legacy")

SpecButtons == InitLegacyDash /\ [][NextButtons]_vars

\* The Next.js simulation page: the world shown, its updates and its
\* Stop/Resume button.
NextSim ==
    \/ \E running \in BOOLEAN : NextInitWorld(running)
    \/ \E id \in Broadcast : srvTime < MaxUpdates /\ NextWorldUpdate(id)
    \/ NextToggleSim
    \/ \E k \in 1..Len(toggles), ok \in BOOLEAN : NextToggled(k, ok)

InitNextPage ==
    /\ InitWorld
    /\ InitLogger(0)
    /\ InitToken(Treasury)
    /\ InitPage("next")

SpecSim == InitNextPage /\ [][NextSim]_vars

\* The wallet dashboard, its wallet and its on-chain logging.
InitWalletDash ==
    /\ InitWorld
    /\ InitLogger(0)
    /\ InitToken(Treasury)
    /\ InitPage("wallet")

SpecChain == InitWalletDash /\ [][NextChain]_vars

SpecSocket ==
    /\ InitAnyVanilla
    /\ [][NextSocket]_vars
    /\ WF_vars(PageLoaded)
    /\ WF_vars(TimerFires)
    /\ WF_vars(\E k \in 1..Len(sockets) : SocketOpens(k))

\* The same, with callers that also write to what observe() returned.
NextCaller == Next \/ WriteObservation

SpecCaller == Init /\ [][NextCaller]_vars

\* The same as Spec, with callers that register any value; registerAgent
\* checks nothing about its argument.
NextAnyValue == Next \/ RegisterAgent(NoDecide)

SpecAnyValue == Init /\ [][NextAnyValue]_vars

\* The action objects handed to World.resolve by a caller of its own: the
\* kind Agent.decide produces, and a kind no component knows.
CallerActions ==
    {[agent |-> "caller", action |-> kind, time |-> time] : kind \in {"observe", "fly"}}

\* world.resolve(action), called from outside step().
ResolveCall(action) ==
    /\ pc = "idle"
    /\ Cardinality({p \in 1..Len(events) : events[p].agent = "caller"}) < MaxWrites
    /\ events' = resolve(events, action)
    /\ UNCHANGED <<objs, time, agents, pc, i, thrown, obs, regAt, nsteps, writes, offWorld>>

\* The same as Spec, with callers that hand actions to resolve themselves.
NextResolve == Next \/ \E action \in CallerActions : ResolveCall(action)

SpecResolve == Init /\ [][NextResolve]_vars

\* reset(): the World's state goes back to its initial values (time, events);
\* the registered agents stay, and count as registered before the next run.
ResetKeepingLog ==
    /\ pc = "idle"
    /\ resets < MaxResets
    /\ resets' = resets + 1
    /\ time' = 0
    /\ regAt' = [k \in 1..Len(agents) |-> 0]
    /\ nsteps' = 0
    /\ thrown' = FALSE
    /\ obs' = NoObs
    /\ UNCHANGED <<objs, agents, events, pc, i, writes, chainVars, pageVars>>

Reset ==
    /\ pc = "idle"
    /\ resets < MaxResets
    /\ resets' = resets + 1
    /\ time' = 0
    /\ events' = <<>>
    /\ regAt' = [k \in 1..Len(agents) |-> 0]
    /\ nsteps' = 0
    /\ thrown' = FALSE
    /\ obs' = NoObs
    /\ UNCHANGED <<objs, agents, pc, i, writes, chainVars, pageVars>>

\* The demo script's order: every agent is registered before the first run.
RegisterBeforeRun(agent) ==
    /\ time = 0
    /\ resets = 0
    /\ RegisterAgent(agent)

\* Runs of a World whose agents are registered up front and that can be
\* reset between runs.
NextReset ==
    \/ \E a \in AgentRefs : RegisterBeforeRun(a)
    \/ StepBegin
    \/ StepAgent
    \/ StepReturn
    \/ Reset

SpecReset == Init /\ [][NextReset]_vars

----------------------------------------------------------------------------
(* Vocabulary of the properties *)

IsPrefix(s, t) == Len(s) <= Len(t) /\ SubSeq(t, 1, Len(s)) = s

\* Every registered agent was registered before the first step.
RegisteredFromStart == \A k \in 1..Len(regAt) : regAt[k] = 0

\* The events that carry time t, in log order.
TickEvents(t) == SelectSeq(events, LAMBDA e : e.time = t)

\* The positions in world.agents of those registered before tick t began.
ParticipantIdx(t) ==
    SelectSeq([k \in 1..Len(agents) |-> k], LAMBDA k : regAt[k] < t)

\* Their names, in registration order.
Participants(t) ==
    [j \in 1..Len(ParticipantIdx(t)) |-> objs[agents[ParticipantIdx(t)[j]]].name]

\* Two entries of world.agents carry the same name.
NameRegistered(a) == \E k \in 1..Len(agents) : objs[agents[k]].name = objs[a].name

----------------------------------------------------------------------------
(* C1: from a fresh World with k agents registered before the first step   *)
(* and none registered later, after n completed step() calls world.time is *)
(* n and world.events holds n * k entries.                                 *)
C1_StepCount ==
    (pc = "idle" /\ RegisteredFromStart) =>
        /\ time = nsteps
        /\ Len(events) = nsteps * Len(agents)

\* Two agents and two completed steps: four events.
C1_Witness ==
    /\ pc = "idle"
    /\ RegisteredFromStart
    /\ Len(agents) = 2
    /\ nsteps = 2
    /\ Len(events) = 4

(* C2: the events of one tick appear in agent registration order, and      *)
(* every event of tick t precedes every event of tick t+1.                 *)
C2_EventOrder ==
    /\ \A p, q \in 1..Len(events) : p < q => events[p].time <= events[q].time
    /\ \A t \in 1..time :
        /\ Len(TickEvents(t)) <= Len(Participants(t))
        /\ \A j \in 1..Len(TickEvents(t)) : TickEvents(t)[j].agent = Participants(t)[j]

\* Two differently named agents have acted in two ticks.
C2_Witness ==
    /\ pc = "idle"
    /\ time = 2
    /\ Len(events) = 4
    /\ events[1].agent # events[2].agent
    /\ events[2].time = 1
    /\ events[3].time = 2

(* C3: every recorded action carries the value world.time had in the tick  *)
(* that produced it (the incremented time); with k agents registered from  *)
(* the start, the event at 0-based index p-1 carries floor((p-1)/k) + 1.   *)
C3_TimeIssued ==
    /\ [](\A p \in 1..Len(events) :
            /\ events[p].time \in 1..time
            /\ (RegisteredFromStart /\ Len(agents) > 0) =>
                    events[p].time = ((p - 1) \div Len(agents)) + 1)
    /\ [][Len(events') > Len(events) => events'[Len(events')].time = time']_vars

\* A1, A2 and three steps: indices 0,1 carry 1; 2,3 carry 2; 4,5 carry 3.
C3_Witness ==
    /\ RegisteredFromStart
    /\ Len(agents) = 2
    /\ Len(events) = 6
    /\ events[2].time = 1
    /\ events[3].time = 2
    /\ events[5].time = 3
    /\ time = 3

(* C4: world.time never decreases; a step() call raises it by exactly one, *)
(* once, on entry, and no other operation changes it.                      *)
C4_TimeByStep ==
    [][IF nsteps' = nsteps + 1 THEN time' = time + 1 ELSE time' = time]_vars

\* Two ticks have run with agents registered and observing in between.
C4_Witness ==
    /\ time = 2
    /\ nsteps = 2
    /\ Len(events) > 0
    /\ obs.kind = "ref"

(* C5: world.events is append-only across registerAgent, step, observe and *)
(* decide: the earlier contents are always a prefix of the later contents. *)
C5_AppendOnly == [][IsPrefix(events, events')]_vars

\* The log has grown over two ticks and an observation has been taken.
C5_Witness ==
    /\ Len(events) >= 3
    /\ time >= 2
    /\ obs.kind = "ref"
    /\ Len(agents) >= 2

(* C6: registerAgent with a name that is already registered leaves the     *)
(* agent list unchanged (it fails with DuplicateAgentError), so no step of *)
(* the program appends an agent whose name is already in the list.         *)
C6_DuplicateRejected ==
    [][~ \E a \in AgentRefs : NameRegistered(a) /\ agents' = Append(agents, a)]_vars

(* C7: observe returns a read-only view: whatever the caller does with the *)
(* value observe returned, world.events is unchanged.                      *)
C7_ObserveReadOnly == [][writes' # writes => events' = events]_vars

(* C8: a tick always completes: whenever no step is running, every agent   *)
(* with a working decide that was registered before the last tick began    *)
(* has its event of that tick in the log, whatever another agent's decide  *)
(* did in that tick.                                                       *)
C8_TickCompletes ==
    (pc = "idle" /\ time > 0) =>
        Len(TickEvents(time)) >=
            Cardinality({k \in 1..Len(agents) : regAt[k] < time /\ HasDecide(agents[k])})

(* C9: resolution within a tick is strictly sequential: when the j-th of k *)
(* agents (all registered from the start) is about to decide in tick t,    *)
(* world.events holds exactly (t-1)*k + (j-1) entries.                     *)
C9_SequentialResolution ==
    (pc = "loop" /\ i <= Len(agents) /\ RegisteredFromStart) =>
        Len(events) = (time - 1) * Len(agents) + (i - 1)

\* The second of two agents is about to decide in the second tick.
C9_Witness ==
    /\ pc = "loop"
    /\ RegisteredFromStart
    /\ Len(agents) = 2
    /\ i = 2
    /\ time = 2
    /\ Len(events) = 3

KnownKinds == {"observe", "trade", "communicate"}

C11_UnknownKindFails ==
    \A p \in 1..Len(events) :
        events[p].action \notin KnownKinds =>
            ("success" \in DOMAIN events[p] /\ events[p].success = FALSE)

(* C13: each decide call appends exactly the action it returns to the      *)
(* deciding agent's own memory and to no other; an agent registered once,  *)
(* from the start, has after n ticks a memory of length n, which is (when  *)
(* no other registered agent bears its name) the sub-sequence of           *)
(* world.events that carry its name.                                       *)
RegisteredOnceFromStart(o) ==
    /\ Cardinality({k \in 1..Len(agents) : agents[k] = o}) = 1
    /\ \A k \in 1..Len(agents) : agents[k] = o => regAt[k] = 0

NameUnique(o) ==
    Cardinality({k \in 1..Len(agents) : objs[agents[k]].name = objs[o].name}) = 1

C13_OwnMemory ==
    /\ [](\A o \in AgentRefs :
            (pc = "idle" /\ RegisteredOnceFromStart(o)) =>
                /\ Len(objs[o].memory) = time
                /\ NameUnique(o) =>
                    objs[o].memory =
                        SelectSeq(events, LAMBDA e : e.agent = objs[o].name))
    /\ [][(objs' # objs \/ events' # events) =>
            /\ Len(events') = Len(events) + 1
            /\ objs' = [objs EXCEPT
                    ![agents[i]].memory = Append(@, events'[Len(events')])]]_vars

\* Two agents with different names have each remembered two ticks.
C13_Witness ==
    /\ pc = "idle"
    /\ time = 2
    /\ Len(agents) = 2
    /\ RegisteredOnceFromStart(agents[1])
    /\ RegisteredOnceFromStart(agents[2])
    /\ NameUnique(agents[1])
    /\ Len(objs[agents[1]].memory) = 2
    /\ Len(events) = 4

(* C14: an Agent never mutates world state: taking an observation leaves   *)
(* time, agents and events as they are; events grow only inside step(), by *)
(* the one entry resolve pushes per iteration (decide adds none itself);   *)
(* time changes only at the entry of step(); a deciding agent touches      *)
(* neither time nor the agent list.                                        *)
C14_AgentFrame ==
    [][/\ obs' # obs => UNCHANGED <<time, agents, events>>
       /\ events' # events =>
            (pc = "loop" /\ events' = Append(events, decide(agents[i], World)))
       /\ time' # time => (pc = "idle" /\ pc' = "loop")
       /\ objs' # objs => UNCHANGED <<time, agents>>]_vars

\* An observation was taken of a world whose agents have decided.
C14_Witness ==
    /\ obs.kind = "ref"
    /\ pc = "loop"
    /\ i = 2
    /\ Len(events) = 3
    /\ Len(objs[agents[1]].memory) >= 2

(* C15: reset() followed by n steps yields the time and the event log that *)
(* n steps yield on a fresh World with the same agents, whatever happened  *)
(* before the reset.                                                       *)
RECURSIVE FreshLog(_)
FreshLog(t) ==
    IF t = 0 THEN <<>>
    ELSE FreshLog(t - 1) \o
            [j \in 1..Len(ParticipantIdx(t)) |->
                [agent |-> Participants(t)[j], action |-> "observe", time |-> t]]

ActedIn(k, t) ==
    /\ regAt[k] < t
    /\ (pc = "loop" /\ t = time) => k < i

C17_LateRegistration ==
    /\ [][IsPrefix(agents, agents') /\ IsPrefix(regAt, regAt')]_vars
    /\ [](\A o \in AgentRefs : \A t \in 1..MaxTime :
            Cardinality({p \in 1..Len(events) :
                events[p].time = t /\ events[p].agent = objs[o].name})
            = Cardinality({k \in 1..Len(agents) :
                objs[agents[k]].name = objs[o].name /\ t <= time /\ ActedIn(k, t)}))

\* An agent that joined after the first tick acted in ticks 2 and 3 only.
C17_Witness ==
    /\ pc = "idle"
    /\ time = 3
    /\ Len(agents) = 2
    /\ regAt[1] = 0
    /\ regAt[2] = 1
    /\ objs[agents[1]].name # objs[agents[2]].name
    /\ Len(SelectSeq(events, LAMBDA e : e.agent = objs[agents[2]].name)) = 2
    /\ \A p \in 1..Len(events) :
            events[p].agent = objs[agents[2]].name => events[p].time > 1

(* C18: ActionLogger is an append-only log with dense ids: logAction      *)
(* returns the number of actions logged before it; getActionCount() equals *)
(* totalActionsLogged; getAction(id) returns the fields passed to the call *)
(* that returned id, and reverts with 'Action does not exist' from the     *)
(* count upwards; no logged action is ever modified or deleted.            *)
C18_DenseAppendOnlyLog ==
    /\ [](/\ getActionCount = logger.totalActionsLogged
          /\ \A id \in 0..(MaxLogged + 1) :
                IF id < getActionCount
                THEN ~getAction(logger, id).reverted
                ELSE /\ getAction(logger, id).reverted
                     /\ getAction(logger, id).reason = "Action does not exist")
    /\ [][IsPrefix(logger.actions, logger'.actions)]_vars
    /\ [][IF loggerTx'.fn = "logAction"
          THEN /\ ~loggerTx'.reverted
               /\ loggerTx'.ret = getActionCount
               /\ Len(logger'.actions) = getActionCount + 1
               /\ getAction(logger', loggerTx'.ret).value =
                    << [agentId |-> loggerTx'.args[1],
                        actionType |-> loggerTx'.args[2],
                        actionData |-> loggerTx'.args[3],
                        timestamp |-> BlockTimestamp,
                        logger |-> loggerTx'.sender,
                        worldTime |-> loggerTx'.args[4]] >>
          ELSE /\ logger'.actions = logger.actions
               /\ logger'.totalActionsLogged = logger.totalActionsLogged]_vars

\* Two actions were logged, by different senders for different agents.
C18_Witness ==
    /\ getActionCount = 2
    /\ logger.totalActionsLogged = 2
    /\ loggerTx.fn = "logAction"
    /\ loggerTx.ret = 1
    /\ logger.actions[1].logger # logger.actions[2].logger
    /\ logger.actions[1].agentId # logger.actions[2].agentId

(* C19: setActionFee, withdrawFees and transferOwnership revert with no    *)
(* state change unless the caller is the current owner; transferOwnership  *)
(* rejects the zero address, so owner is never the zero address; actionFee *)
(* and owner change only through these owner-only calls; logAction is open *)
(* to any caller.                                                          *)
AdminFunctions == {"setActionFee", "withdrawFees", "transferOwnership"}

C19_OwnerOnly ==
    /\ [](logger.owner # ZeroAddress)
    /\ [][/\ (loggerTx'.fn \in AdminFunctions /\ loggerTx'.sender # logger.owner) =>
                (loggerTx'.reverted /\ logger' = logger)
          /\ loggerTx'.reverted => logger' = logger
          /\ (logger'.owner # logger.owner \/ logger'.actionFee # logger.actionFee) =>
                /\ loggerTx'.fn \in AdminFunctions
                /\ loggerTx'.sender = logger.owner
                /\ ~loggerTx'.reverted
          /\ loggerTx'.fn = "logAction" => ~loggerTx'.reverted]_vars

\* After a transfer of ownership the former owner is turned away, and an
\* account that is not the owner has logged an action.
C19_Witness ==
    /\ logger.owner = Stranger
    /\ loggerTx.fn = "setActionFee"
    /\ loggerTx.sender = Deployer
    /\ loggerTx.reverted
    /\ Len(logger.actions) > 0
    /\ logger.actions[1].logger = Stranger

(* C16: whenever enterWorld(worldId) succeeds and emits                    *)
(* AgentEntered(worldId, caller, fee) for a caller who is neither the      *)
(* world's creator nor the platform wallet, the caller's balance has       *)
(* decreased by exactly fee, the creator has received fee*70/100 (rounded  *)
(* down) and the platform wallet the remainder.                            *)
C16_EntryFeePaid ==
    [][(tokenTx'.fn = "enterWorld" /\ ~tokenTx'.reverted) =>
          LET caller == tokenTx'.sender
              creator == token.worldCreators[tokenTx'.args[1]]
              platform == token.platformWallet
              fee == tokenTx'.emitted[4]
              creatorShare == (fee * 70) \div 100
              received(a) == (IF a = creator THEN creatorShare ELSE 0)
                             + (IF a = platform THEN fee - creatorShare ELSE 0)
          IN  (/\ tokenTx'.emitted[1] = "AgentEntered"
               /\ tokenTx'.emitted[3] = caller
               /\ caller \notin {creator, platform}) =>
                  /\ balanceOf(token', caller) = balanceOf(token, caller) - fee
                  /\ balanceOf(token', creator) = balanceOf(token, creator) + received(creator)
                  /\ balanceOf(token', platform) = balanceOf(token, platform) + received(platform)
      ]_vars

(* C20: createWorld(worldId, fee) reverts with 'World already exists' when *)
(* the id was created before and with 'Entry fee must be > 0' when fee is  *)
(* 0, leaving state unchanged; a world's creator and entry fee never       *)
(* change once set; every existing world has entry fee > 0; enterWorld on  *)
(* a never-created id reverts with 'World does not exist'.                 *)
WorldExists(tk, worldId) == tk.worldCreators[worldId] # ZeroAddress

C20_WorldsCreatedOnce ==
    /\ [](\A w \in WorldIds : WorldExists(token, w) => token.worldEntryFees[w] > 0)
    /\ [][\A w \in WorldIds : WorldExists(token, w) =>
              /\ token'.worldCreators[w] = token.worldCreators[w]
              /\ token'.worldEntryFees[w] = token.worldEntryFees[w]]_vars
    /\ [][tokenTx'.fn = "createWorld" =>
              LET w == tokenTx'.args[1]
                  fee == tokenTx'.args[2]
              IN  /\ WorldExists(token, w) =>
                        /\ tokenTx'.reverted
                        /\ tokenTx'.reason = "World already exists"
                  /\ (fee = 0 /\ ~WorldExists(token, w)) =>
                        /\ tokenTx'.reverted
                        /\ tokenTx'.reason = "Entry fee must be > 0"
                  /\ (fee > 0 /\ ~WorldExists(token, w)) =>
                        /\ ~tokenTx'.reverted
                        /\ token'.worldCreators[w] = tokenTx'.sender
                        /\ token'.worldEntryFees[w] = fee
                  /\ tokenTx'.reverted => token' = token]_vars
    /\ [][(tokenTx'.fn = "enterWorld" /\ ~WorldExists(token, tokenTx'.args[1])) =>
              /\ tokenTx'.reverted
              /\ tokenTx'.reason = "World does not exist"
              /\ token' = token]_vars

\* Someone other than its creator tried to create an existing world again,
\* with another fee, and was turned away.
C20_Witness ==
    /\ tokenTx.fn = "createWorld"
    /\ tokenTx.reverted
    /\ tokenTx.reason = "World already exists"
    /\ WorldExists(token, tokenTx.args[1])
    /\ tokenTx.sender # token.worldCreators[tokenTx.args[1]]
    /\ tokenTx.args[2] \notin {0, token.worldEntryFees[tokenTx.args[1]]}

(* C21: getRecentActions(count) returns exactly the last min(count, total)  *)
(* logged actions in logging order, oldest of the window first, for every  *)
(* count >= 0 including 0 and counts above the number of actions, and      *)
(* never reverts.                                                          *)
LastOf(seq, n) ==
    LET m == IF n < Len(seq) THEN n ELSE Len(seq)
    IN  SubSeq(seq, Len(seq) - m + 1, Len(seq))

C21_RecentActions ==
    /\ [](\A count \in 0..(MaxLogged + 1) :
            /\ ~getRecentActions(logger, count).reverted
            /\ getRecentActions(logger, count).value = LastOf(logger.actions, count))
    /\ [][loggerTx'.fn = "getRecentActions" =>
            /\ ~loggerTx'.reverted
            /\ loggerTx'.ret = LastOf(logger.actions, loggerTx'.args[1])
            /\ logger' = logger]_vars

\* With two actions logged, the most recent one alone was asked for.
C21_Witness ==
    /\ loggerTx.fn = "getRecentActions"
    /\ ~loggerTx.reverted
    /\ loggerTx.args = <<1>>
    /\ Len(logger.actions) = 2
    /\ logger.actions[1] # logger.actions[2]
    /\ loggerTx.ret = <<logger.actions[2]>>

(* C22: the dashboards keep a sliding window of price points: after every  *)
(* update the series holds at most the window size (60 in app.js and the   *)
(* wallet dashboard, 50 in the legacy dashboard and the Next.js page),     *)
(* labels and data have equal length, the retained points are the most     *)
(* recent ones in arrival order, and reset empties the series.             *)
C22_SlidingWindow ==
    /\ [](LET kept == LastOf(points, ChartPoints(dash))
          IN  /\ Len(priceData.labels) = Len(priceData.data)
              /\ Len(priceData.labels) <= ChartPoints(dash)
              /\ priceData.labels = Times(kept)
              /\ priceData.data = Prices(kept)
              /\ dash \in {"legacy", "next"} => priceHistory = kept)
    /\ [][op' = "reset" => (priceData' = EmptyChart /\ priceHistory' = <<>>)]_vars

\* The wallet dashboard has received more points than its window holds.
C22_Witness ==
    /\ dash = "wallet"
    /\ op = "update"
    /\ Len(points) > WalletChartPoints
    /\ Len(priceData.labels) = WalletChartPoints
    /\ priceData.labels[1] # points[1].time

(* C23: the event feed is bounded and keeps the newest entries: it shows at *)
(* most its cap (80 in app.js, 100 in the wallet dashboard, 20 in the      *)
(* legacy dashboard and the Next.js page), and whenever the cap is         *)
(* exceeded it is the oldest entries that are dropped, never the most      *)
(* recently added one.                                                     *)
Reverse(seq) == [k \in 1..Len(seq) |-> seq[Len(seq) + 1 - k]]

\* The feed a dashboard would show of all the lines added to it, the cap
\* applied: oldest first (app.js, wallet), newest first (legacy), or in the
\* order the Next.js page lays them out.
NewestLines ==
    CASE dash \in {"app", "wallet"} -> LastOf(entries, EventsShown(dash))
      [] dash = "legacy" -> Reverse(LastOf(entries, EventsShown(dash)))
      [] dash = "next" -> SubSeq(entries, 1, IF Len(entries) > EventsShown(dash)
                                               THEN EventsShown(dash)
                                               ELSE Len(entries))

Connected == \E k \in 1..Len(sockets) : sockets[k] = "open"

C24_Reconnects ==
    /\ [](/\ Len(sockets) <= 1
          /\ Len(timers) <= 1
          /\ loaded => Len(sockets) + Len(timers) = 1
          /\ \A k \in 1..Len(timers) : timers[k] = ReconnectDelay(dash))
    /\ [][Len(sockets') < Len(sockets) =>
             /\ Len(timers') = Len(timers) + 1
             /\ timers'[Len(timers')] = ReconnectDelay(dash)]_vars
    /\ [][Len(timers') < Len(timers) => Len(sockets') = Len(sockets) + 1]_vars
    /\ (<>[]serverUp) => []<>Connected

\* The dashboard is connected again after as many attempts as are counted.
C24_Witness ==
    /\ attempts = MaxAttempts
    /\ Connected
    /\ dash = "legacy"

(* C25: on-chain logging is strictly opt-in: logActionOnChain adds a line   *)
(* to the transaction log only when logging is enabled, a contract         *)
(* interface is initialised and a wallet account is connected, and         *)
(* otherwise does nothing; the dashboard calls it only for actions of type *)
(* 'trade' whose result reports success, so no line ever appears for a     *)
(* failed or non-trade action.                                             *)
IsLoggable(action) == action.type = "trade" /\ action.success

LinesFor(actions) ==
    LET loggable == SelectSeq(actions, IsLoggable)
    IN  [k \in 1..Len(loggable) |->
            [agentId |-> loggable[k].agent, actionType |-> loggable[k].type,
             status |-> "pending", of |-> loggable[k]]]

C25_OptInLogging ==
    /\ [](\A k \in 1..Len(txLog) : IsLoggable(txLog[k].of))
    /\ [][op' = "update" =>
            IF onChainLoggingEnabled /\ contract /\ userAccount # "null"
            THEN txLog' = LastOf(txLog \o LinesFor(lastStep'.actions), WalletTxShown)
            ELSE txLog' = txLog]_vars
    /\ [][Len(txLog') > Len(txLog) =>
            /\ op' = "update"
            /\ onChainLoggingEnabled /\ contract /\ userAccount # "null"]_vars

\* With logging on, a step reported a failed and a successful trade and only
\* the successful one was logged; before that a successful trade went by
\* unlogged.
C25_Witness ==
    /\ op = "update"
    /\ onChainLoggingEnabled /\ contract /\ userAccount # "null"
    /\ lastStep.actions = <<Trade(FALSE), Trade(TRUE)>>
    /\ lastStep.time = 2
    /\ Len(txLog) = 1
    /\ \E k \in 1..Len(entries) : entries[k] = EventLine(1, Trade(TRUE))

(***************************************************************************)
(* C26: on the legacy dashboard, with Start, Stop and Step disabled when   *)
(* the page is served, the Start and Stop buttons are never enabled at the *)
(* same time, whatever the order of the clicks and of the answers to the   *)
(* fetches, an answer 'created' that arrives after an answer 'started'     *)
(* included.                                                               *)
(***************************************************************************)
C26_StartStopExclusive == disabled["start"] \/ disabled["stop"]

(***************************************************************************)
(* C27: on the Next.js simulation page toggleSim changes only the running  *)
(* flag of the local world: a world_update applied while the start/stop    *)
(* request is awaited is not lost, that is, when the toggle completes      *)
(* world.state and world.time are those of the most recent world_update    *)
(* applied to the world shown.                                             *)
(***************************************************************************)
C27_ToggleKeepsUpdates ==
    [][op' = "toggle" =>
          /\ \A f \in DOMAIN theWorld \ {"running"} :
                f \in DOMAIN theWorld' /\ theWorld'[f] = theWorld[f]
          /\ lastUpdate # Null =>
                /\ {"state", "time"} \subseteq DOMAIN theWorld'
                /\ theWorld'.state = lastUpdate.state
                /\ theWorld'.time = lastUpdate.time]_vars

====
